---- MODULE Spec2Model ----
(***************************************************************************)
(* Model of snowdepth2SWE: the calendar arithmetic (get_doy, calc_dowy),   *)
(* the Sturm snow class table (extract_byclass), the density models and    *)
(* the orchestrator swe_models with its raster sink write_out_rio.         *)
(*                                                                         *)
(* Strings are sequences of one-character strings.  Real numbers are       *)
(* fixed-point integers scaled by SCALE.                                   *)
(***************************************************************************)
EXTENDS Integers, Sequences, FiniteSets, TLC

\* ------------------------------------------------------------------------
\* Bounds of the model
\* ------------------------------------------------------------------------
MaxYears == 4      \* years 2019 .. 2019+MaxYears are enumerated (plus 1900)
MaxMonth == 13     \* month fields 0 .. MaxMonth are enumerated
MaxDay   == 32     \* day fields 0 .. MaxDay are enumerated

Years == {1900} \cup (2019 .. (2019 + MaxYears))

\* ------------------------------------------------------------------------
\* Strings and Python's int() / slicing
\* ------------------------------------------------------------------------
DigitChars == <<"0", "1", "2", "3", "4", "5", "6", "7", "8", "9">>

IsDigit(ch) == \E i \in 1..10 : DigitChars[i] = ch

DigitOf(ch) == CHOOSE d \in 0..9 : DigitChars[d + 1] = ch

Min(a, b) == IF a < b THEN a ELSE b
Max(a, b) == IF a > b THEN a ELSE b

\* f[lo:hi] with 0 <= lo <= hi (Python clamps the indices to the length)
Slice(f, lo, hi) == SubSeq(f, lo + 1, Min(hi, Len(f)))

\* f[-2:]
Last2(f) == SubSeq(f, Max(Len(f) - 2, 0) + 1, Len(f))

RECURSIVE DigitsVal(_)
DigitsVal(s) ==
    IF s = <<>> THEN 0
    ELSE 10 * DigitsVal(SubSeq(s, 1, Len(s) - 1)) + DigitOf(s[Len(s)])

AllDigits(s) == \A i \in 1..Len(s) : IsDigit(s[i])

\* int() strips the white space around the number
RECURSIVE Strip(_)
Strip(s) ==
    IF s = <<>> THEN s
    ELSE IF s[1] = " " THEN Strip(Tail(s))
    ELSE IF s[Len(s)] = " " THEN Strip(SubSeq(s, 1, Len(s) - 1))
    ELSE s

\* int(s): an optional sign followed by at least one digit, else ValueError
IntOK(s) ==
    LET t == Strip(s)
    IN  /\ Len(t) >= 1
        /\ IF t[1] = "-" THEN Len(t) >= 2 /\ AllDigits(Tail(t))
                         ELSE AllDigits(t)

IntVal(s) ==
    LET t == Strip(s)
    IN  IF t[1] = "-" THEN 0 - DigitsVal(Tail(t)) ELSE DigitsVal(t)

\* ------------------------------------------------------------------------
\* datetime.date
\* ------------------------------------------------------------------------
IsLeap(Y) == (Y % 4 = 0 /\ Y % 100 # 0) \/ Y % 400 = 0

DaysInMonth(Y, M) ==
    IF M = 2 THEN (IF IsLeap(Y) THEN 29 ELSE 28)
    ELSE IF M \in {4, 6, 9, 11} THEN 30 ELSE 31

\* datetime.date(Y, M, D) raises ValueError outside these ranges
ValidDate(Y, M, D) ==
    /\ Y >= 1 /\ Y <= 9999
    /\ M >= 1 /\ M <= 12
    /\ D >= 1 /\ D <= DaysInMonth(Y, M)

RECURSIVE DaysBefore(_, _)
DaysBefore(Y, M) == IF M <= 1 THEN 0 ELSE DaysBefore(Y, M - 1) + DaysInMonth(Y, M - 1)

\* ordinal of a date within its year, Jan 1 = 1
YearDay(Y, M, D) == DaysBefore(Y, M) + D

\* (date(Y, M2, D2) - date(Y, M1, D1)).days for two dates of one year
DaysBetween(Y, M1, D1, M2, D2) == YearDay(Y, M2, D2) - YearDay(Y, M1, D1)

\* date(Y, M1, D1) > date(Y, M2, D2)
DateAfter(M1, D1, M2, D2) == M1 > M2 \/ (M1 = M2 /\ D1 > D2)

\* bool & bool & int of Python: the result is the low bit of n when b holds
BitAnd(b, n) == IF b THEN n % 2 ELSE 0

Failed == [ok |-> FALSE, val |-> 0]
Returned(v) == [ok |-> TRUE, val |-> v]

\* the three int() conversions and the date constructor
ParsesToDate(f) ==
    /\ IntOK(Slice(f, 0, 4)) /\ IntOK(Slice(f, 4, 6)) /\ IntOK(Last2(f))
    /\ ValidDate(IntVal(Slice(f, 0, 4)), IntVal(Slice(f, 4, 6)), IntVal(Last2(f)))

get_doy(f, handleleaps) ==
    IF ~ParsesToDate(f) THEN Failed
    ELSE
      LET Y == IntVal(Slice(f, 0, 4))
          M == IntVal(Slice(f, 4, 6))
          D == IntVal(Last2(f))
          diff == DaysBetween(Y, M, D, 12, 31)
          DOY == 365 - diff
          \* (thisDate > date(Y,2,28)) & (thisDate <= yearEnd) & (Y%4) == 0
          cond == BitAnd(DateAfter(M, D, 2, 28) /\ ~DateAfter(M, D, 12, 31), Y % 4) = 0
      IN  Returned(IF handleleaps /\ cond THEN DOY + 1 ELSE DOY)

calc_dowy(f) ==
    IF ~ParsesToDate(f) THEN Failed
    ELSE
      LET Y == IntVal(Slice(f, 0, 4))
          M == IntVal(Slice(f, 4, 6))
          D == IntVal(Last2(f))
          diff0 == DaysBetween(Y, M, D, 9, 30)
          diff == IF diff0 < 0 THEN diff0 + 365 ELSE diff0
          DOWY == 365 - diff
          \* (thisDate > date(Y,2,28)) & (thisDate <= endDOWY) & (Y%4) == 0
          cond == BitAnd(DateAfter(M, D, 2, 28) /\ ~DateAfter(M, D, 9, 30), Y % 4) = 0
      IN  Returned(IF cond THEN DOWY + 1 ELSE DOWY)

\* ------------------------------------------------------------------------
\* str.title()
\* ------------------------------------------------------------------------
Lowers == <<"a", "b", "c", "d", "e", "f", "g", "h", "i", "j", "k", "l", "m",
            "n", "o", "p", "q", "r", "s", "t", "u", "v", "w", "x", "y", "z">>
Uppers == <<"A", "B", "C", "D", "E", "F", "G", "H", "I", "J", "K", "L", "M",
            "N", "O", "P", "Q", "R", "S", "T", "U", "V", "W", "X", "Y", "Z">>

IsLower(ch) == \E i \in 1..26 : Lowers[i] = ch
IsUpper(ch) == \E i \in 1..26 : Uppers[i] = ch
IsCased(ch) == IsLower(ch) \/ IsUpper(ch)

ToUpper(ch) == IF IsLower(ch) THEN Uppers[CHOOSE i \in 1..26 : Lowers[i] = ch] ELSE ch
ToLower(ch) == IF IsUpper(ch) THEN Lowers[CHOOSE i \in 1..26 : Uppers[i] = ch] ELSE ch

\* a cased character is upper-cased when the character before it is not
\* cased (or there is none) and lower-cased otherwise
Title(s) ==
    [i \in 1..Len(s) |->
        IF ~IsCased(s[i]) THEN s[i]
        ELSE IF i > 1 /\ IsCased(s[i - 1]) THEN ToLower(s[i]) ELSE ToUpper(s[i])]

\* ------------------------------------------------------------------------
\* Fixed-point numbers
\* ------------------------------------------------------------------------
SCALE == 10000

\* Sturm et al. (2010) parameters by snow class, times SCALE
snow_classes == << <<"A", "l", "p", "i", "n", "e">>,
                   <<"M", "a", "r", "i", "t", "i", "m", "e">>,
                   <<"P", "r", "a", "i", "r", "i", "e">>,
                   <<"T", "u", "n", "d", "r", "a">>,
                   <<"T", "a", "i", "g", "a">> >>
rho_maxes == <<5975, 5979, 5940, 3630, 2170>>
rho_inits == <<2237, 2578, 2332, 2425, 2170>>
k1s == <<12, 10, 16, 29, 0>>
k2s == <<38, 38, 31, 49, 0>>

InClasses(s) == \E i \in 1..Len(snow_classes) : snow_classes[i] = s
IndexOf(s) == CHOOSE i \in 1..Len(snow_classes) : snow_classes[i] = s

NoParams == [ok |-> FALSE, snow_class |-> <<>>, rho_max |-> 0, rho_init |-> 0,
             k1 |-> 0, k2 |-> 0]

ParamsAt(idx) == [ok |-> TRUE, snow_class |-> snow_classes[idx],
                  rho_max |-> rho_maxes[idx], rho_init |-> rho_inits[idx],
                  k1 |-> k1s[idx], k2 |-> k2s[idx]]

\* extract_byclass without the title-cased second try
extract_byclass_exact(c) ==
    IF InClasses(c) THEN ParamsAt(IndexOf(c)) ELSE NoParams

\* ok = FALSE stands for sys.exit(...)
extract_byclass(c) ==
    IF InClasses(c) THEN ParamsAt(IndexOf(c))
    ELSE IF InClasses(Title(c)) THEN ParamsAt(IndexOf(Title(c)))
    ELSE NoParams

\* a * b of two numbers scaled by SCALE, without overflowing 32 bits
MulFix(a, b) == (a \div SCALE) * b + ((a % SCALE) * b) \div SCALE

RECURSIVE Pow2(_)
Pow2(k) == IF k <= 0 THEN 1 ELSE 2 * Pow2(k - 1)

\* sum of the Taylor terms term, term*r/n, term*r^2/(n(n+1)), ... of exp(r)
RECURSIVE ExpSeries(_, _, _)
ExpSeries(r, n, term) ==
    IF term = 0 \/ n > 12 THEN 0
    ELSE term + ExpSeries(r, n + 1, (term * r) \div (n * SCALE))

\* np.exp: exp(y) = 2^k * exp(r) with y = k*ln(2) + r and 0 <= r < ln(2)
ExpFix(y) ==
    LET k == y \div 6931
        r == y % 6931
        e == ExpSeries(r, 1, SCALE)
    IN  IF k >= 0 THEN e * Pow2(k) ELSE e \div Pow2(0 - k)

\* x = m * 2^k with 1 <= m < 2
RECURSIVE LnReduce(_, _)
LnReduce(x, k) ==
    IF x >= 2 * SCALE THEN LnReduce(x \div 2, k + 1)
    ELSE IF x < SCALE THEN LnReduce(x * 2, k - 1)
    ELSE <<x, k>>

\* z + z^3/3 + z^5/5 + ... from the term z^n on
RECURSIVE AtanhSeries(_, _, _)
AtanhSeries(z, n, term) ==
    IF term = 0 \/ n > 11 THEN 0
    ELSE term \div n + AtanhSeries(z, n + 2, (((term * z) \div SCALE) * z) \div SCALE)

\* ln(m * 2^k) = k * ln(2) + 2 * atanh((m - 1) / (m + 1))
LnOf(mk) ==
    mk[2] * 6931
      + 2 * AtanhSeries(((mk[1] - SCALE) * SCALE) \div (mk[1] + SCALE), 1,
                        ((mk[1] - SCALE) * SCALE) \div (mk[1] + SCALE))

\* natural logarithm of x > 0
LnFix(x) == LnOf(LnReduce(x, 0))

\* x ** a for x >= 0 (a is scaled by SCALE)
PowFix(x, a) == IF x = 0 THEN 0 ELSE ExpFix((a * LnFix(x)) \div SCALE)

\* np.tanh: tanh(y) = 1 - 2 / (exp(2y) + 1)
TanhFix(y) == SCALE - (2 * SCALE * SCALE) \div (ExpFix(2 * y) + SCALE)

\* ------------------------------------------------------------------------
\* Grids: a named array of cell values (scaled by SCALE) with attributes.
\* oid is the identity of the array object: 0 for an object that no name is
\* bound to yet, and the number of the binding statement afterwards.
\* ------------------------------------------------------------------------
NoGrid == [name |-> "", values |-> <<>>, attrs |-> {}, oid |-> 0]

\* arithmetic on a labelled array makes a new array: it keeps the name and
\* drops the attributes
Derived(g, vals) == [name |-> g.name, values |-> vals, attrs |-> {}, oid |-> 0]

\* g.copy(): a new array with the same name, values and attributes
Copy(g) == [g EXCEPT !.oid = 0]

\* name = g: a new array becomes the object number site, an array that is
\* already somebody's object stays that object
Bind(g, site) == IF g.oid = 0 THEN [g EXCEPT !.oid = site] ELSE g

\* what the name bound to v shows after a statement has left the array o:
\* the same object shows the new contents, another object is untouched
Sync(v, o) == IF o.oid # 0 /\ v.oid = o.oid THEN o ELSE v

\* g * k for a plain number k
Times(g, k) == Derived(g, [i \in 1..Len(g.values) |-> g.values[i] * k])

SetName(g, n) == [g EXCEPT !.name = n]

SetAttr(g, k, v) == [g EXCEPT !.attrs = {p \in g.attrs : p[1] # k} \cup {<<k, v>>}]

\* h * bulk_density
bulkdensity_swecalc(h, bulk_density) ==
    Derived(h, [i \in 1..Len(h.values) |-> MulFix(h.values[i], bulk_density)])

\* one cell of rho_b_model for the depth v [m] and the day DOY
SturmRho(v, p, DOY) ==
    LET h_cm == v * 10
        e == ExpFix(0 - ((p.k1 * h_cm) \div SCALE) - p.k2 * DOY)
    IN  ((p.rho_max - p.rho_init) * (SCALE - e)) \div SCALE + p.rho_init

NoSturm == [ok |-> FALSE, swe |-> NoGrid, rho_b_model |-> NoGrid, DOY |-> 0,
            params |-> NoParams]

\* a Sturm model driven by the day of water year
sturm_swecalc_dowy(h, snow_class, YMD) ==
    LET doy == calc_dowy(YMD)
        p == extract_byclass(snow_class)
        rho_b_model == [i \in 1..Len(h.values) |-> SturmRho(h.values[i], p, doy.val)]
        swe == [i \in 1..Len(h.values) |-> MulFix(h.values[i], rho_b_model[i]) * 1000]
    IN  IF ~doy.ok \/ ~p.ok THEN NoSturm
        ELSE [ok |-> TRUE, swe |-> Derived(h, swe),
              rho_b_model |-> Derived(h, rho_b_model),
              DOY |-> doy.val, params |-> p]

\* the tuple of return_all; swe alone is the plain return value
sturm_swecalc(h, snow_class, YMD) ==
    LET doy == get_doy(YMD, TRUE)
        p == extract_byclass(snow_class)
        rho_b_model == [i \in 1..Len(h.values) |-> SturmRho(h.values[i], p, doy.val)]
        swe == [i \in 1..Len(h.values) |-> MulFix(h.values[i], rho_b_model[i]) * 1000]
    IN  IF ~doy.ok \/ ~p.ok THEN NoSturm
        ELSE [ok |-> TRUE, swe |-> Derived(h, swe),
              rho_b_model |-> Derived(h, rho_b_model),
              DOY |-> doy.val, params |-> p]

\* h * 1000 when mm_convert is given, h itself otherwise
get_snowdepth(arr, mm_convert) ==
    IF mm_convert THEN Times(arr, 1000) ELSE arr

\* the climate rasters of the environment: a uniform value per file
td_paper_fn == "td_final.txt"
pptwt_paper_fn == "ppt_wt_final.txt"
td_grid_fn == "TD.tif"
pptwt_grid_fn == "PPTWT.tif"

ClimateValue(fn) ==
    IF fn = td_paper_fn THEN 15 * SCALE
    ELSE IF fn = td_grid_fn THEN 20 * SCALE
    ELSE IF fn = pptwt_paper_fn THEN 400 * SCALE
    ELSE 500 * SCALE

\* the two rasters reprojected onto the cells of ref
grid_climate(ref, td_fn, pptwt_fn) ==
    [td |-> [i \in 1..Len(ref.values) |-> ClimateValue(td_fn)],
     pptwt |-> [i \in 1..Len(ref.values) |-> ClimateValue(pptwt_fn)]]

hill_a == <<533, 9480, 1701, -1314, 2922>>
hill_b == <<481, 10395, 1699, -461, 1804>>

\* co[1] * h**co[2] * pptwt**co[3] * td**co[4] * DOWY**co[5], as the
\* exponential of the sum of the logarithms of the factors
Regime(co, h, pptwt, td, DOWY) ==
    IF h = 0 THEN 0
    ELSE ExpFix(LnFix(co[1])
                + (co[2] * LnFix(h)) \div SCALE + (co[3] * LnFix(pptwt)) \div SCALE
                + (co[4] * LnFix(td)) \div SCALE + (co[5] * LnFix(DOWY * SCALE)) \div SCALE)

\* one cell of swe_calc
HillCell(h, pptwt, td, DOWY) ==
    MulFix(Regime(hill_a, h, pptwt, td, DOWY), SCALE - TanhFix((DOWY - 180) * 100)) \div 2
      + MulFix(Regime(hill_b, h, pptwt, td, DOWY), TanhFix((DOWY - 180) * 100) + SCALE) \div 2

\* a Hill model that takes the values of the paper files as they are, without
\* a call of grid_climate
calc_swe_paper_unaligned(h, YMD, td_fn, pptwt_fn, readable) ==
    LET paper == td_fn = td_paper_fn
        clim == grid_climate(h, td_fn, pptwt_fn)
        dowy == calc_dowy(YMD)
        swe_calc == [i \in 1..Len(h.values) |->
                        HillCell(h.values[i], clim.pptwt[i], clim.td[i], dowy.val)]
        swe0 == SetName(Copy(h), "SWE")
        swe1 == [swe0 EXCEPT !.values = swe_calc]
        swe2 == SetAttr(swe1, "default_name", "SWE")
        swe3 == SetAttr(swe2, "long_name", "snow water equivalent [mm]")
        calls == IF paper THEN <<>> ELSE << <<td_fn, pptwt_fn>> >>
    IN  IF (~paper /\ ~readable) \/ ~dowy.ok
        THEN [ok |-> FALSE, swe |-> NoGrid, h |-> h, DOWY |-> 0, calls |-> calls]
        ELSE [ok |-> TRUE, swe |-> swe3, h |-> h, DOWY |-> dowy.val, calls |-> calls]

\* a Hill model that writes its result into the depth grid it was given
\* (swe = h in place of swe = h.copy()): rename makes a new labelled array
\* over the same values and attributes
calc_swe_nocopy(h, YMD, td_fn, pptwt_fn, readable) ==
    LET clim == grid_climate(h, td_fn, pptwt_fn)
        dowy == calc_dowy(YMD)
        swe_calc == [i \in 1..Len(h.values) |->
                        HillCell(h.values[i], clim.pptwt[i], clim.td[i], dowy.val)]
        h1 == [h EXCEPT !.values = swe_calc]
        h2 == SetAttr(h1, "default_name", "SWE")
        h3 == SetAttr(h2, "long_name", "snow water equivalent [mm]")
    IN  IF ~readable \/ ~dowy.ok
        THEN [ok |-> FALSE, swe |-> NoGrid, h |-> h, DOWY |-> 0,
              calls |-> << <<td_fn, pptwt_fn>> >>]
        ELSE [ok |-> TRUE, swe |-> SetName(Copy(h3), "SWE"), h |-> h3,
              DOWY |-> dowy.val, calls |-> << <<td_fn, pptwt_fn>> >>]

\* calc_swe(h=h, td_fn=..., pptwt_fn=..., YMD=YMD); readable tells whether the
\* climate rasters can be opened and reprojected.  calls lists the
\* invocations of grid_climate.
calc_swe(h, YMD, td_fn, pptwt_fn, readable) ==
    LET clim == grid_climate(h, td_fn, pptwt_fn)
        dowy == calc_dowy(YMD)
        swe_calc == [i \in 1..Len(h.values) |->
                        HillCell(h.values[i], clim.pptwt[i], clim.td[i], dowy.val)]
        swe0 == SetName(Copy(h), "SWE")
        swe1 == [swe0 EXCEPT !.values = swe_calc]
        swe2 == SetAttr(swe1, "default_name", "SWE")
        swe3 == SetAttr(swe2, "long_name", "snow water equivalent [mm]")
    IN  IF ~readable \/ ~dowy.ok
        THEN [ok |-> FALSE, swe |-> NoGrid, h |-> h, DOWY |-> 0,
              calls |-> << <<td_fn, pptwt_fn>> >>]
        ELSE [ok |-> TRUE, swe |-> swe3, h |-> h, DOWY |-> dowy.val,
              calls |-> << <<td_fn, pptwt_fn>> >>]

\* ------------------------------------------------------------------------
\* The raster sink
\* ------------------------------------------------------------------------
NoFile == [exists |-> FALSE, values |-> <<>>, profile |-> ""]

\* arr.astype(float32): a value keeps 24 significant bits
RECURSIVE Float32(_)
Float32(n) == IF n < 16777216 THEN n ELSE 2 * Float32((n + 1) \div 2)

\* a sink that does not look whether the target exists
write_out_rio_clobber(fs, arr, fn, src, src_fn, prof, overwrite, dryrun) ==
    LET hasProfile == src # "" \/ src_fn # "" \/ prof # ""
        profile == IF src # "" THEN src ELSE IF src_fn # "" THEN src_fn ELSE prof
        written == [fs EXCEPT ![fn] =
                       [exists |-> TRUE,
                        values |-> [i \in 1..Len(arr.values) |-> Float32(arr.values[i])],
                        profile |-> profile]]
    IN  IF dryrun THEN [files |-> fs, ok |-> TRUE, wrote |-> FALSE]
        ELSE IF ~hasProfile THEN [files |-> fs, ok |-> FALSE, wrote |-> FALSE]
        ELSE [files |-> written, ok |-> TRUE, wrote |-> TRUE]

\* src, src_fn and prof are profiles, "" when the argument is None
write_out_rio(fs, arr, fn, src, src_fn, prof, overwrite, dryrun) ==
    LET hasProfile == src # "" \/ src_fn # "" \/ prof # ""
        profile == IF src # "" THEN src ELSE IF src_fn # "" THEN src_fn ELSE prof
        written == [fs EXCEPT ![fn] =
                       [exists |-> TRUE,
                        values |-> [i \in 1..Len(arr.values) |-> Float32(arr.values[i])],
                        profile |-> profile]]
        doWrite == IF ~overwrite THEN ~fs[fn].exists /\ ~dryrun ELSE ~dryrun
    IN  IF ~doWrite THEN [files |-> fs, ok |-> TRUE, wrote |-> FALSE]
        ELSE IF ~hasProfile THEN [files |-> fs, ok |-> FALSE, wrote |-> FALSE]
        ELSE [files |-> written, ok |-> TRUE, wrote |-> TRUE]

\* ------------------------------------------------------------------------
\* Inputs
\* ------------------------------------------------------------------------
NCells == 2        \* cells of a depth grid

RECURSIVE Pow10(_)
Pow10(k) == IF k <= 0 THEN 1 ELSE 10 * Pow10(k - 1)

\* the decimal digits of n, zero padded to w characters
Pad(n, w) == [i \in 1..w |-> DigitChars[((n \div Pow10(w - i)) % 10) + 1]]

Fmt8(Y, M, D) == Pad(Y, 4) \o Pad(M, 2) \o Pad(D, 2)

DateFields == Years \X (0..MaxMonth) \X (0..MaxDay)

\* "YYYYMMDD" for valid and invalid fields, and malformed variants of it:
\* "YYYY-MM-DD", 7 and 9 digits, and blanks in place of the leading zeros
DateInputs ==
    {Fmt8(d[1], d[2], d[3]) : d \in DateFields}
    \cup {Pad(d[1], 4) \o <<"-">> \o Pad(d[2], 2) \o <<"-">> \o Pad(d[3], 2) : d \in DateFields}
    \cup {SubSeq(Fmt8(d[1], d[2], d[3]), 1, 7) : d \in DateFields}
    \cup {Fmt8(d[1], d[2], d[3]) \o <<"1">> : d \in DateFields}
    \cup {Pad(d[1], 4) \o <<" ">> \o Pad(d[2] % 10, 1) \o <<" ">> \o Pad(d[3] % 10, 1) :
             d \in DateFields}

\* every upper/lower casing of a name
Casings(name) ==
    {[i \in 1..Len(name) |-> IF up[i] THEN ToUpper(name[i]) ELSE ToLower(name[i])] :
        up \in [1..Len(name) -> BOOLEAN]}

ClassInputs ==
    UNION {Casings(snow_classes[i]) : i \in 1..Len(snow_classes)}
    \cup { <<>>, <<"F", "o", "o">>, <<"A", "l", "p", "i", "n">>,
           <<"a", "l", "p", "i", "n", "e", " ">>, <<"a", "l", " ", "p", "i", "n", "e">>,
           <<"t", "a", "i", "g", "a", "1">>, <<"1", "t", "a", "i", "g", "a">> }

YMD_20200101 == <<"2", "0", "2", "0", "0", "1", "0", "1">>
YMD_dashed == <<"2", "0", "2", "0", "-", "0", "1", "-", "0", "1">>
YMDs == {YMD_20200101, YMD_dashed}

SnowClassArgs == { <<"A", "l", "p", "i", "n", "e">>, <<"t", "a", "i", "g", "a">>,
                   <<"F", "o", "o">> }

\* depth grids [m]: 1.0 m everywhere, and 0.5 m everywhere
DepthGrid(v) == [name |-> "SD", values |-> [i \in 1..NCells |-> v],
                 attrs |-> {<<"units", "m">>}, oid |-> 1]
DepthGrids == {DepthGrid(SCALE), DepthGrid(SCALE \div 2)}

BulkDensities == {(3 * SCALE) \div 10}

\* the snow depth raster of the run: dirname, and the basename split before
\* its last seven characters
sd_dir == "/data"
sd_stem == "20200101"
sd_last7 == "_SD.tif"
sd_fn == sd_dir \o "/" \o sd_stem \o sd_last7

\* outdir argument: "" is None
Outdirs == {"", sd_dir}

bulk_fn(outdir, bulk_density) ==
    outdir \o "/" \o sd_stem \o "_bulk" \o ToString((bulk_density * 1000) \div SCALE)
           \o "SWE.tif"
sturm_fn(outdir) == outdir \o "/" \o sd_stem \o "_SturmSWE.tif"
hillpaper_fn(outdir) == outdir \o "/" \o sd_stem \o "_HillPaperSWE.tif"
hillgrid_fn(outdir) == outdir \o "/" \o sd_stem \o "_HillGridSWE.tif"

AllPaths ==
    {bulk_fn(sd_dir, b) : b \in BulkDensities}
    \cup {sturm_fn(sd_dir), hillpaper_fn(sd_dir), hillgrid_fn(sd_dir)}

\* ------------------------------------------------------------------------
\* State
\* ------------------------------------------------------------------------
VARIABLES
    f,              \* calendar: the date string passed in
    cal_op,         \* calendar: the function applied, "none" before the call
    cal_out,        \* calendar: its outcome
    c,              \* class table: the name passed in
    cls_op,         \* class table: "none" before the call
    cls_out,        \* class table: the outcome of extract_byclass
    pc,             \* swe_models: position, "idle" outside of a call
    args,           \* swe_models: the arguments of the call
    swe_fns,        \* swe_models: list of output file names
    bulk_swe,       \* swe_models: local grids, NoGrid while unbound
    sturm_swe,
    sd_converted,
    hill_swe_paper,
    hill_swe,
    evaluated,      \* models evaluated by the current call, in order
    aligned,        \* grid_climate invocations of the current call, in order
    diag,           \* day values computed by the current call
    files,          \* the file system: path -> raster, NoFile when absent
    lastwrite,      \* the write_out_rio invocation of the last step, if any
    ret             \* what the last call returned or raised

calvars == <<f, cal_op, cal_out>>
clsvars == <<c, cls_op, cls_out>>
locals == <<bulk_swe, sturm_swe, sd_converted, hill_swe_paper, hill_swe>>
mainvars == <<pc, args, swe_fns, locals, evaluated, aligned, diag, files, lastwrite, ret>>
vars == <<calvars, clsvars, mainvars>>

NoArgs == [h |-> NoGrid, YMD |-> <<>>, bulk_density |-> 0, snow_class |-> <<>>,
           outdir |-> "", writeout |-> FALSE, overwrite |-> FALSE, dryrun |-> FALSE]
NoWrite == [called |-> FALSE, fn |-> "", overwrite |-> FALSE, dryrun |-> FALSE,
            existed |-> FALSE, wrote |-> FALSE, ok |-> TRUE]
NoRet == [kind |-> "none", fns |-> <<>>, list |-> <<>>]
NoDiag == [DOY |-> 0, DOWY_paper |-> 0, DOWY_grid |-> 0]

Raised(kind) == [kind |-> kind, fns |-> <<>>, list |-> <<>>]

CalIdle == f = <<>> /\ cal_op = "none" /\ cal_out = Failed
ClsIdle == c = <<>> /\ cls_op = "none" /\ cls_out = NoParams
MainIdle ==
    /\ pc = "idle" /\ args = NoArgs /\ swe_fns = <<>>
    /\ bulk_swe = NoGrid /\ sturm_swe = NoGrid /\ sd_converted = NoGrid
    /\ hill_swe_paper = NoGrid /\ hill_swe = NoGrid
    /\ evaluated = <<>> /\ aligned = <<>> /\ diag = NoDiag
    /\ files = [p \in AllPaths |-> NoFile]
    /\ lastwrite = NoWrite /\ ret = NoRet

\* ------------------------------------------------------------------------
\* Calendar and class table calls
\* ------------------------------------------------------------------------
InitCalendar == f \in DateInputs /\ cal_op = "none" /\ cal_out = Failed
                /\ ClsIdle /\ MainIdle

GetDoy ==
    /\ cal_op = "none"
    /\ \E handleleaps \in BOOLEAN :
          /\ cal_op' = (IF handleleaps THEN "get_doy" ELSE "get_doy_noleap")
          /\ cal_out' = get_doy(f, handleleaps)
    /\ UNCHANGED <<f, clsvars, mainvars>>

CalcDowy ==
    /\ cal_op = "none"
    /\ cal_op' = "calc_dowy"
    /\ cal_out' = calc_dowy(f)
    /\ UNCHANGED <<f, clsvars, mainvars>>

NextCalendar == GetDoy \/ CalcDowy

SpecCalendar == InitCalendar /\ [][NextCalendar]_vars

InitClass == c \in ClassInputs /\ cls_op = "none" /\ cls_out = NoParams
             /\ CalIdle /\ MainIdle

ExtractByClass ==
    /\ cls_op = "none"
    /\ cls_op' = "extract_byclass"
    /\ cls_out' = extract_byclass(c)
    /\ UNCHANGED <<c, calvars, mainvars>>

NextClass == ExtractByClass

SpecClass == InitClass /\ [][NextClass]_vars

\* ------------------------------------------------------------------------
\* swe_models, one action per section of its body
\* ------------------------------------------------------------------------
Init == CalIdle /\ ClsIdle /\ MainIdle

WriteLog(fn, overwrite, dryrun, w) ==
    [called |-> TRUE, fn |-> fn, overwrite |-> overwrite, dryrun |-> dryrun,
     existed |-> files[fn].exists, wrote |-> w.wrote, ok |-> w.ok]

\* the models run whatever dryrun says
Evaluates_always(a) == TRUE

\* "if not dryrun:" in front of every model
Evaluates(a) == ~a.dryrun

\* the call: resolves the output directory and starts with an empty name list
SweStart ==
    /\ pc = "idle"
    /\ \E h \in DepthGrids, YMD \in YMDs, bulk_density \in BulkDensities,
          snow_class \in SnowClassArgs, outdir \in Outdirs,
          writeout \in BOOLEAN, overwrite \in BOOLEAN, dryrun \in BOOLEAN :
          args' = [h |-> h, YMD |-> YMD, bulk_density |-> bulk_density,
                   snow_class |-> snow_class,
                   outdir |-> (IF outdir = "" THEN sd_dir ELSE outdir),
                   writeout |-> writeout, overwrite |-> overwrite, dryrun |-> dryrun]
    /\ pc' = "bulk"
    /\ swe_fns' = <<>>
    /\ bulk_swe' = NoGrid /\ sturm_swe' = NoGrid /\ sd_converted' = NoGrid
    /\ hill_swe_paper' = NoGrid /\ hill_swe' = NoGrid
    /\ evaluated' = <<>> /\ aligned' = <<>> /\ diag' = NoDiag
    /\ lastwrite' = NoWrite /\ ret' = NoRet
    /\ UNCHANGED <<files, calvars, clsvars>>

\* the arguments of the pass after a statement has left the array o: h is the
\* caller's depth grid object
Leaves(o) == [args EXCEPT !.h = Sync(args.h, o)]

SweBulk ==
    /\ pc = "bulk"
    /\ LET fn == bulk_fn(args.outdir, args.bulk_density)
           swe == SetName(Bind(Times(bulkdensity_swecalc(args.h, args.bulk_density),
                                     1000), 2),
                          "Bulk SWE [mm]")
           w == write_out_rio(files, swe, fn, "", sd_fn, "", args.overwrite, FALSE)
       IN  /\ IF ~Evaluates(args)
              THEN UNCHANGED <<args, bulk_swe, evaluated, files>> /\ lastwrite' = NoWrite
              ELSE /\ bulk_swe' = swe
                   /\ args' = Leaves(swe)
                   /\ evaluated' = Append(evaluated, "bulk")
                   /\ IF args.writeout
                      THEN /\ files' = w.files
                           /\ lastwrite' = WriteLog(fn, args.overwrite, FALSE, w)
                      ELSE UNCHANGED files /\ lastwrite' = NoWrite
           /\ swe_fns' = Append(swe_fns, fn)
    /\ pc' = "sturm"
    /\ UNCHANGED <<sturm_swe, sd_converted, hill_swe_paper, hill_swe, aligned,
                   diag, ret, calvars, clsvars>>

SweSturm ==
    /\ pc = "sturm"
    /\ LET fn == sturm_fn(args.outdir)
           r == sturm_swecalc(args.h, args.snow_class, args.YMD)
           swe == SetName(Bind(r.swe, 3), "Sturm SWE [mm]")
           w == write_out_rio(files, swe, fn, "", sd_fn, "", args.overwrite, FALSE)
       IN  IF ~Evaluates(args)
           THEN /\ swe_fns' = Append(swe_fns, fn) /\ pc' = "hill_paper"
                /\ lastwrite' = NoWrite
                /\ UNCHANGED <<args, sturm_swe, evaluated, diag, files, ret>>
           ELSE IF ~r.ok
           THEN \* get_doy raises ValueError, else extract_byclass exits
                /\ ret' = Raised(IF ~get_doy(args.YMD, TRUE).ok THEN "ValueError"
                                 ELSE "SystemExit")
                /\ pc' = "idle" /\ lastwrite' = NoWrite
                /\ UNCHANGED <<args, swe_fns, sturm_swe, evaluated, diag, files>>
           ELSE /\ sturm_swe' = swe
                /\ args' = Leaves(swe)
                /\ evaluated' = Append(evaluated, "sturm")
                /\ diag' = [diag EXCEPT !.DOY = r.DOY]
                /\ IF args.writeout
                   THEN /\ files' = w.files
                        /\ lastwrite' = WriteLog(fn, args.overwrite, FALSE, w)
                   ELSE UNCHANGED files /\ lastwrite' = NoWrite
                /\ swe_fns' = Append(swe_fns, fn) /\ pc' = "hill_paper"
                /\ UNCHANGED ret
    /\ UNCHANGED <<bulk_swe, sd_converted, hill_swe_paper, hill_swe, aligned,
                   calvars, clsvars>>

SweHillPaper ==
    /\ pc = "hill_paper"
    /\ \E readable \in BOOLEAN :
       LET fn == hillpaper_fn(args.outdir)
           sd == Bind(get_snowdepth(args.h, TRUE), 4)
           r == calc_swe(sd, args.YMD, td_paper_fn, pptwt_paper_fn, readable)
           w == write_out_rio(files, r.swe, fn, "", sd_fn, "", args.overwrite, FALSE)
       IN  IF ~Evaluates(args)
           THEN /\ swe_fns' = Append(swe_fns, fn) /\ pc' = "hill_grid"
                /\ lastwrite' = NoWrite
                /\ UNCHANGED <<args, sd_converted, hill_swe_paper, evaluated, aligned,
                               diag, files, ret>>
           ELSE /\ sd_converted' = r.h
                /\ args' = Leaves(r.h)
                /\ aligned' = aligned \o r.calls
                /\ IF ~r.ok
                   THEN /\ ret' = Raised(IF ~readable THEN "IOError" ELSE "ValueError")
                        /\ pc' = "idle" /\ lastwrite' = NoWrite
                        /\ UNCHANGED <<swe_fns, hill_swe_paper, evaluated, diag, files>>
                   ELSE /\ hill_swe_paper' = Bind(r.swe, 5)
                        /\ evaluated' = Append(evaluated, "hill_paper")
                        /\ diag' = [diag EXCEPT !.DOWY_paper = r.DOWY]
                        /\ IF args.writeout
                           THEN /\ files' = w.files
                                /\ lastwrite' = WriteLog(fn, args.overwrite, FALSE, w)
                           ELSE UNCHANGED files /\ lastwrite' = NoWrite
                        /\ swe_fns' = Append(swe_fns, fn) /\ pc' = "hill_grid"
                        /\ UNCHANGED ret
    /\ UNCHANGED <<bulk_swe, sturm_swe, hill_swe, calvars, clsvars>>

SweHillGrid ==
    /\ pc = "hill_grid"
    /\ \E readable \in BOOLEAN :
       LET fn == hillgrid_fn(args.outdir)
           r == calc_swe(sd_converted, args.YMD, td_grid_fn, pptwt_grid_fn, readable)
           w == write_out_rio(files, r.swe, fn, "", sd_fn, "", args.overwrite, FALSE)
       IN  IF ~Evaluates(args)
           THEN /\ swe_fns' = Append(swe_fns, fn) /\ pc' = "return"
                /\ lastwrite' = NoWrite
                /\ UNCHANGED <<args, sd_converted, hill_swe, evaluated, aligned, diag,
                               files, ret>>
           ELSE /\ sd_converted' = r.h
                /\ args' = Leaves(r.h)
                /\ aligned' = aligned \o r.calls
                /\ IF ~r.ok
                   THEN /\ ret' = Raised(IF ~readable THEN "IOError" ELSE "ValueError")
                        /\ pc' = "idle" /\ lastwrite' = NoWrite
                        /\ UNCHANGED <<swe_fns, hill_swe, evaluated, diag, files>>
                   ELSE /\ hill_swe' = Bind(r.swe, 6)
                        /\ evaluated' = Append(evaluated, "hill_grid")
                        /\ diag' = [diag EXCEPT !.DOWY_grid = r.DOWY]
                        /\ IF args.writeout
                           THEN /\ files' = w.files
                                /\ lastwrite' = WriteLog(fn, args.overwrite, FALSE, w)
                           ELSE UNCHANGED files /\ lastwrite' = NoWrite
                        /\ swe_fns' = Append(swe_fns, fn) /\ pc' = "return"
                        /\ UNCHANGED ret
    /\ UNCHANGED <<bulk_swe, sturm_swe, hill_swe_paper, calvars, clsvars>>

\* a list that also carries the Hill paper grid
swe_list_four == <<bulk_swe, sturm_swe, hill_swe_paper, hill_swe>>

swe_list == <<bulk_swe, sturm_swe, hill_swe>>

SweReturn ==
    /\ pc = "return"
    /\ ret' = (IF Evaluates(args)
               THEN [kind |-> "fns_and_list", fns |-> swe_fns, list |-> swe_list]
               ELSE [kind |-> "fns", fns |-> swe_fns, list |-> <<>>])
    /\ pc' = "idle"
    /\ lastwrite' = NoWrite
    /\ UNCHANGED <<args, swe_fns, locals, evaluated, aligned, diag, files,
                   calvars, clsvars>>

\* the targets of a call of write_out_rio by itself
SinkPaths == {sturm_fn(sd_dir), hillgrid_fn(sd_dir)}

\* a call of write_out_rio by itself
WriteCall ==
    /\ pc = "idle"
    /\ \E arr \in DepthGrids, fn \in SinkPaths, src \in {"", "src.profile"},
          src_fn \in {"", sd_fn}, prof \in {"", "prof"},
          overwrite \in BOOLEAN, dryrun \in BOOLEAN :
       LET w == write_out_rio(files, arr, fn, src, src_fn, prof, overwrite, dryrun)
       IN  /\ files' = w.files
           /\ lastwrite' = WriteLog(fn, overwrite, dryrun, w)
           /\ ret' = (IF w.ok THEN [kind |-> "written", fns |-> <<fn>>, list |-> <<>>]
                      ELSE Raised("UnboundLocalError"))
    /\ args' = NoArgs /\ swe_fns' = <<>>
    /\ bulk_swe' = NoGrid /\ sturm_swe' = NoGrid /\ sd_converted' = NoGrid
    /\ hill_swe_paper' = NoGrid /\ hill_swe' = NoGrid
    /\ evaluated' = <<>> /\ aligned' = <<>> /\ diag' = NoDiag
    /\ UNCHANGED <<pc, calvars, clsvars>>

Next == SweStart \/ SweBulk \/ SweSturm \/ SweHillPaper \/ SweHillGrid \/ SweReturn

Spec == Init /\ [][Next]_vars

\* the sink called by itself, any number of times
NextSink == WriteCall

SpecSink == Init /\ [][NextSink]_vars

\* ------------------------------------------------------------------------
\* Claims about the calendar (checked under SpecCalendar)
\* ------------------------------------------------------------------------
IsDate8(g) == Len(g) = 8 /\ AllDigits(g)

FieldY(g) == DigitsVal(SubSeq(g, 1, 4))
FieldM(g) == DigitsVal(SubSeq(g, 5, 6))
FieldD(g) == DigitsVal(SubSeq(g, 7, 8))

IsValidDate8(g) == IsDate8(g) /\ ValidDate(FieldY(g), FieldM(g), FieldD(g))

\* the year in whose October the water year of the date g begins
WaterYearStart(g) == IF FieldM(g) >= 10 THEN FieldY(g) ELSE FieldY(g) - 1

\* the dates Oct 1 of Y through Sep 30 of Y + 1
WaterYearDates(Y) ==
    {Fmt8(Y, m, d) : m \in 10..12, d \in 1..31} \cup {Fmt8(Y + 1, m, d) : m \in 1..9, d \in 1..31}

WaterYearLength(Y) == IF IsLeap(Y + 1) THEN 366 ELSE 365

\* C1: calc_dowy restricted to Oct 1 of Y .. Sep 30 of Y+1 is a bijection onto
\* 1..365 (1..366 when the span contains a Feb 29), Oct 1 maps to 1 and Sep 30
\* to 365 (366): the value of the call lies in the range, is shared with no
\* other date of the span, and is right at both ends.
C1_DowyBijection ==
    (cal_op = "calc_dowy" /\ IsValidDate8(f)) =>
        LET Y == WaterYearStart(f)
            N == WaterYearLength(Y)
        IN  /\ cal_out.ok
            /\ cal_out.val \in 1..N
            /\ (f = Fmt8(Y, 10, 1) => cal_out.val = 1)
            /\ (f = Fmt8(Y + 1, 9, 30) => cal_out.val = N)
            /\ \A g \in WaterYearDates(Y) :
                  (IsValidDate8(g) /\ g # f) => calc_dowy(g).val # cal_out.val

\* C2: for every valid date get_doy with leap handling returns
\* 365 - (Dec 31 - date).days, plus 1 exactly when the date is after Feb 28
\* and the year is divisible by 4.
C2_DoyFormula ==
    (cal_op = "get_doy" /\ IsValidDate8(f)) =>
        LET Y == FieldY(f)
            M == FieldM(f)
            D == FieldD(f)
            base == 365 - (YearDay(Y, 12, 31) - YearDay(Y, M, D))
        IN  /\ cal_out.ok
            /\ cal_out.val = (IF DateAfter(M, D, 2, 28) /\ Y % 4 = 0 THEN base + 1 ELSE base)

\* C3: get_doy and calc_dowy end in an error, and return no day number, for
\* every string that is not exactly 8 digits and for every 8-digit string
\* that is not a valid calendar date.
C3_DateFormatError ==
    (cal_op # "none" /\ ~IsValidDate8(f)) => ~cal_out.ok

\* ------------------------------------------------------------------------
\* Claims about the class table (checked under SpecClass)
\* ------------------------------------------------------------------------
\* Table 4 of Sturm et al. (2010), times SCALE
SturmTable ==
    { [ok |-> TRUE, snow_class |-> <<"A", "l", "p", "i", "n", "e">>,
       rho_max |-> 5975, rho_init |-> 2237, k1 |-> 12, k2 |-> 38],
      [ok |-> TRUE, snow_class |-> <<"M", "a", "r", "i", "t", "i", "m", "e">>,
       rho_max |-> 5979, rho_init |-> 2578, k1 |-> 10, k2 |-> 38],
      [ok |-> TRUE, snow_class |-> <<"P", "r", "a", "i", "r", "i", "e">>,
       rho_max |-> 5940, rho_init |-> 2332, k1 |-> 16, k2 |-> 31],
      [ok |-> TRUE, snow_class |-> <<"T", "u", "n", "d", "r", "a">>,
       rho_max |-> 3630, rho_init |-> 2425, k1 |-> 29, k2 |-> 49],
      [ok |-> TRUE, snow_class |-> <<"T", "a", "i", "g", "a">>,
       rho_max |-> 2170, rho_init |-> 2170, k1 |-> 0, k2 |-> 0] }

\* the name, or its title-cased form, is the one-word class name n: the two
\* agree letter by letter when the case of the letters is ignored
ResolvesTo(name, n) ==
    /\ Len(name) = Len(n)
    /\ \A i \in 1..Len(n) : ToLower(name[i]) = ToLower(n[i])

\* C4: extract_byclass succeeds exactly when the name or its title-cased form
\* is one of the five classes; it then returns the name and the four
\* parameters of that one class, and otherwise it exits without parameters.
C4_Lookup ==
    cls_op = "extract_byclass" =>
        /\ cls_out.ok <=> \E e \in SturmTable : ResolvesTo(c, e.snow_class)
        /\ cls_out.ok => \E e \in SturmTable : ResolvesTo(c, e.snow_class) /\ cls_out = e
        /\ ~cls_out.ok => cls_out = NoParams

C4_Witness ==
    /\ cls_op = "extract_byclass"
    /\ c = <<"A", "L", "P", "I", "N", "E">>
    /\ cls_out.ok
    /\ cls_out.snow_class = <<"A", "l", "p", "i", "n", "e">>
    /\ cls_out.rho_max = 5975

\* ------------------------------------------------------------------------
\* Claims about swe_models (checked under Spec)
\* ------------------------------------------------------------------------
FourNames ==
    <<bulk_fn(args.outdir, args.bulk_density), sturm_fn(args.outdir),
      hillpaper_fn(args.outdir), hillgrid_fn(args.outdir)>>

\* C5 as stated: without dry-run, when every model succeeds, the call returns
\* four SWE grids in the order bulk, sturm, hill_paper, hill_grid, one per
\* output name.
C5_FourGrids ==
    ret.kind = "fns_and_list" =>
        /\ Len(ret.list) = Len(ret.fns)
        /\ ret.list = <<bulk_swe, sturm_swe, hill_swe_paper, hill_swe>>

\* C5 amended: without dry-run, when every model succeeds, the call returns
\* the four output names in the order bulk, sturm, hill_paper, hill_grid and
\* three SWE grids in the order bulk, sturm, hill_grid; the Hill paper grid
\* is computed but not returned.
C5_NamesAndThreeGrids ==
    ret.kind = "fns_and_list" =>
        /\ ret.fns = FourNames
        /\ Len(ret.list) = 3
        /\ ret.list[1] = bulk_swe /\ ret.list[1].name = "Bulk SWE [mm]"
        /\ ret.list[2] = sturm_swe /\ ret.list[2].name = "Sturm SWE [mm]"
        /\ ret.list[3] = hill_swe /\ ret.list[3].name = "SWE"
        /\ hill_swe_paper # NoGrid
        /\ \A i \in 1..3 : ret.list[i] # hill_swe_paper

C5_Witness ==
    /\ pc = "idle" /\ ret.kind = "fns_and_list"
    /\ evaluated = <<"bulk", "sturm", "hill_paper", "hill_grid">>

\* C6: with dry-run set no model is evaluated, grid_climate is not invoked
\* and no file is written, whatever the other options are; the call returns
\* only the four output names in the order bulk, sturm, hill_paper, hill_grid.
C6_DryRun ==
    [][args'.dryrun =>
          /\ files' = files
          /\ ~lastwrite'.called
          /\ evaluated' = <<>> /\ aligned' = <<>>
          /\ bulk_swe' = NoGrid /\ sturm_swe' = NoGrid /\ sd_converted' = NoGrid
          /\ hill_swe_paper' = NoGrid /\ hill_swe' = NoGrid
          /\ (pc' # "idle" => ret'.kind = "none")
          /\ pc' = "idle" => (ret'.kind = "fns" /\ ret'.list = <<>>
                               /\ ret'.fns = <<bulk_fn(args'.outdir, args'.bulk_density),
                                               sturm_fn(args'.outdir),
                                               hillpaper_fn(args'.outdir),
                                               hillgrid_fn(args'.outdir)>>)]_vars

C6_Witness ==
    /\ pc = "idle" /\ args.dryrun /\ args.writeout /\ args.overwrite
    /\ ret.kind = "fns" /\ Len(ret.fns) = 4
    /\ \E p \in AllPaths : files[p].exists

\* C7: in one pass a fatal failure of one model does not keep the other
\* models from being evaluated: when the pass is over the bulk model has
\* completed, the Sturm model has unless its class or date is bad, and with
\* a good date each Hill variant has been taken up to its call of
\* grid_climate.
C7_FailureIsolated ==
    (pc = "idle" /\ ret.kind # "none" /\ args # NoArgs /\ ~args.dryrun) =>
        /\ \E i \in 1..Len(evaluated) : evaluated[i] = "bulk"
        /\ (get_doy(args.YMD, TRUE).ok /\ extract_byclass(args.snow_class).ok)
              => \E i \in 1..Len(evaluated) : evaluated[i] = "sturm"
        /\ calc_dowy(args.YMD).ok
              => /\ \E i \in 1..Len(aligned) : aligned[i] = <<td_paper_fn, pptwt_paper_fn>>
                 /\ \E i \in 1..Len(aligned) : aligned[i] = <<td_grid_fn, pptwt_grid_fn>>

\* the end-to-end scenario: 1.0 m everywhere, "20200101", Alpine
Scenario ==
    /\ args.h = DepthGrid(SCALE)
    /\ args.YMD = YMD_20200101
    /\ args.snow_class = <<"A", "l", "p", "i", "n", "e">>

\* swe_mm of one cell for the depth h [m], h_cm and the day, Alpine parameters
AlpineSweMm(h, h_cm, day) ==
    LET rho_b == ((5975 - 2237) * (SCALE - ExpFix(0 - (12 * h_cm) \div SCALE - 38 * day)))
                    \div SCALE + 2237
    IN  MulFix(h, rho_b) * 1000

SturmDone == \E i \in 1..Len(evaluated) : evaluated[i] = "sturm"

\* C9 as stated: in the scenario the day value computed for the date is 93
\* and the Sturm model uses h_cm = 10 and this day value 93.
C9_SturmDay93 ==
    (Scenario /\ SturmDone) =>
        /\ diag.DOY = 93
        /\ \A i \in 1..NCells : sturm_swe.values[i] = AlpineSweMm(SCALE, 10 * SCALE, 93)

\* C9 amended: in the scenario calc_dowy gives 93, used by the Hill variants
\* only; the Sturm model uses h_cm = 10 and the day of year 1 of get_doy.
C9_SturmDay1 ==
    /\ (Scenario /\ SturmDone) =>
          /\ diag.DOY = 1
          /\ \A i \in 1..NCells : sturm_swe.values[i] = AlpineSweMm(SCALE, 10 * SCALE, 1)
    /\ (Scenario /\ hill_swe_paper # NoGrid) => diag.DOWY_paper = 93
    /\ (Scenario /\ hill_swe # NoGrid) => diag.DOWY_grid = 93

C9_Witness ==
    /\ Scenario /\ pc = "idle" /\ ret.kind = "fns_and_list"
    /\ diag = [DOY |-> 1, DOWY_paper |-> 93, DOWY_grid |-> 93]
    /\ AlpineSweMm(SCALE, 10 * SCALE, 1) # AlpineSweMm(SCALE, 10 * SCALE, 93)

\* C10 as stated: the Hill paper variant never invokes grid_climate; only
\* the grid variant does.
C10_PaperSkipsAlignment ==
    \A i \in 1..Len(aligned) : aligned[i] = <<td_grid_fn, pptwt_grid_fn>>

\* C10 amended: both Hill variants go through calc_swe, which invokes
\* grid_climate before the formula is evaluated: the paper variant with the
\* two paper files, then the grid variant with the two PRISM grids.
C10_BothAlign ==
    /\ Len(aligned) <= 2
    /\ Len(aligned) >= 1 => aligned[1] = <<td_paper_fn, pptwt_paper_fn>>
    /\ Len(aligned) = 2 => aligned[2] = <<td_grid_fn, pptwt_grid_fn>>
    /\ hill_swe_paper # NoGrid => Len(aligned) >= 1
    /\ sd_converted # NoGrid => Len(aligned) >= 1
    /\ hill_swe # NoGrid => Len(aligned) = 2

C10_Witness ==
    /\ pc = "hill_grid" /\ hill_swe_paper # NoGrid /\ hill_swe = NoGrid
    /\ aligned = << <<td_paper_fn, pptwt_paper_fn>> >>

\* ------------------------------------------------------------------------
\* Claim about the raster sink (checked under SpecSink)
\* ------------------------------------------------------------------------
\* C8: write_out_rio changes an existing file only when overwrite is set;
\* with overwrite unset it writes exactly when the target does not exist and
\* its dryrun is off, so an existing file keeps its first-written content.
C8_NoClobber ==
    [][/\ \A p \in AllPaths :
             (files[p].exists /\ files'[p] # files[p])
                => (lastwrite'.called /\ lastwrite'.fn = p /\ lastwrite'.overwrite)
       /\ (lastwrite'.called /\ ~lastwrite'.overwrite /\ lastwrite'.ok)
             => /\ (files'[lastwrite'.fn].exists /\ ~files[lastwrite'.fn].exists)
                   <=> (~files[lastwrite'.fn].exists /\ ~lastwrite'.dryrun)
                /\ files[lastwrite'.fn].exists => files' = files]_vars

C8_Witness ==
    /\ lastwrite.called /\ ~lastwrite.overwrite /\ ~lastwrite.dryrun
    /\ lastwrite.existed /\ ~lastwrite.wrote /\ lastwrite.ok
    /\ files[lastwrite.fn].exists

\* ------------------------------------------------------------------------
\* C11
\* ------------------------------------------------------------------------
\* the grids the pass has made so far, in the order the pass binds them
MadeGrids == <<bulk_swe, sturm_swe, sd_converted, hill_swe_paper, hill_swe>>

\* every grid the pass has made is an object of its own: none of them is the
\* caller's depth grid, and no two of them are one object
DistinctNewGrids ==
    \A i \in 1..Len(MadeGrids) :
        MadeGrids[i] # NoGrid =>
            /\ MadeGrids[i].oid \notin {0, args.h.oid}
            /\ \A j \in 1..Len(MadeGrids) :
                   (j # i /\ MadeGrids[j] # NoGrid) => MadeGrids[j].oid # MadeGrids[i].oid

\* C11: no step of a swe_models pass (bulkdensity_swecalc, sturm_swecalc,
\* get_snowdepth with conversion, calc_swe on the paper and on the gridded
\* climate, the return) changes the caller's depth grid: its values, name and
\* attributes after the step are those before it.  The converted depth that
\* calc_swe is given is, after either call of calc_swe, still the depth times
\* 1000 with the depth's name and no attributes, and every grid the pass has
\* made is a new object distinct from the depth grid and from the others.
C11_InputsUntouched ==
    [][pc # "idle" =>
          /\ args'.h = args.h
          /\ (sd_converted # NoGrid => sd_converted' = sd_converted)
          /\ (sd_converted' # NoGrid =>
                 /\ sd_converted'.name = args.h.name
                 /\ sd_converted'.attrs = {}
                 /\ sd_converted'.values =
                        [i \in 1..Len(args.h.values) |-> args.h.values[i] * 1000])
          /\ DistinctNewGrids']_vars

\* a whole pass has returned its three grids after both Hill models ran, and
\* the Hill results carry other values, another name and other attributes
\* than the depth they were computed from
C11_Witness ==
    /\ pc = "idle" /\ ret.kind = "fns_and_list"
    /\ evaluated = <<"bulk", "sturm", "hill_paper", "hill_grid">>
    /\ args.h = DepthGrid(SCALE)
    /\ hill_swe.name = "SWE" /\ hill_swe.attrs # {}
    /\ hill_swe.values # sd_converted.values
    /\ hill_swe_paper.values # sd_converted.values
    /\ bulk_swe.values # args.h.values /\ sturm_swe.values # args.h.values

====
